---- MODULE Spec2Model ----
(***************************************************************************)
(* pythonOBIEE: the export orchestrator (OBIEEAnalysisExporter), the       *)
(* report descriptor (Report) and the session scope (OBIEESession).        *)
(*                                                                         *)
(* Python strings are sequences of one-character strings.  The remote      *)
(* SOAP service is the environment: each remote call is answered by a      *)
(* response drawn from a small set (a value, a zeep Fault, or any other    *)
(* exception).  The wall clock is an integer number of seconds.            *)
(***************************************************************************)
EXTENDS Integers, Sequences, FiniteSets, TLC

\* ------------------------------------------------------------------ bounds
MaxTimeout == 2      \* exporter.timeout ranges over 0..MaxTimeout
MaxInterval == 1     \* exporter.status_check_interval ranges over 0..MaxInterval
MaxDelay == 1        \* seconds one status query may take: 0..MaxDelay
MaxPolls == 4        \* status queries modelled per export call; with a positive
                     \* interval the loop ends within MaxTimeout + 2 of them
MaxEntries == 2      \* __enter__ calls modelled per session object
MaxExits == 3        \* __exit__ calls modelled per session object
MaxLen == 3          \* length of the report_ref strings given to Report(...)

\* ------------------------------------------------------------ Python values
\* Python's None: a value that differs from every string over the alphabet.
None == <<"None">>

\* bool(v) of an optional string: None and "" are falsy.
Truthy(v) == v # None /\ v # <<>>

\* str.strip(): leading and trailing blanks removed.
RECURSIVE LStrip(_)
LStrip(s) == IF s # <<>> /\ Head(s) = " " THEN LStrip(Tail(s)) ELSE s

RECURSIVE RStrip(_)
RStrip(s) == IF s # <<>> /\ s[Len(s)] = " " THEN RStrip(SubSeq(s, 1, Len(s) - 1)) ELSE s

Strip(s) == RStrip(LStrip(s))

\* ------------------------------------------------------------------ Report
\* Report._strip_and_log: the stripped value (the warning is a log line).
StripAndLog(value) == Strip(value)

\* Report._strip_and_log, line 70: whether the warning is logged.
StripWarns(value) == Strip(value) # value

\* The descriptor as the dataclass leaves it after __post_init__.
Report(ref, fmt, folder, custom, refresh) ==
    [ report_ref         |-> StripAndLog(ref),
      output_format      |-> StripAndLog(fmt),
      output_folder      |-> IF Truthy(folder) THEN StripAndLog(folder) ELSE folder,
      custom_report_name |-> IF Truthy(custom) THEN StripAndLog(custom) ELSE custom,
      refresh            |-> refresh ]

\* pathlib: Path(s).name, the final path segment (trailing slashes dropped).
RECURSIVE DropTrailingSlash(_)
DropTrailingSlash(s) ==
    IF s # <<>> /\ s[Len(s)] = "/" THEN DropTrailingSlash(SubSeq(s, 1, Len(s) - 1)) ELSE s

RECURSIVE LastSegment(_)
LastSegment(s) ==
    IF s = <<>> \/ s[Len(s)] = "/" THEN <<>>
    ELSE LastSegment(SubSeq(s, 1, Len(s) - 1)) \o <<s[Len(s)]>>

PathName(s) == LastSegment(DropTrailingSlash(s))

\* Report._generate_report_name
GenerateReportName(r) == PathName(r.report_ref)

\* Report.report_name
ReportName(r) ==
    IF Truthy(r.custom_report_name) THEN r.custom_report_name ELSE GenerateReportName(r)

\* A variant of OriginalName that prefers the custom name, as report_name does.
OriginalNameFromCustom(r) == ReportName(r)

\* Report.original_name
OriginalName(r) == GenerateReportName(r)

\* A variant of ExecutionOptions that never asks for a refresh.
ExecutionOptionsNoRefresh(r) == [async |-> TRUE, useMtom |-> FALSE, refresh |-> FALSE]

\* Report.execution_options
ExecutionOptions(r) == [async |-> TRUE, useMtom |-> FALSE, refresh |-> r.refresh]

\* The descriptors callers construct here.
RefInputs == { <<" ", "a", "/", "b">> }
FormatInputs == { <<"C", "S", "V">> }
FolderInputs == { None, <<>>, <<" ", "d">> }
CustomInputs == { None, <<"c">> }

Reports ==
    { Report(ref, fmt, folder, custom, refresh) :
        ref \in RefInputs, fmt \in FormatInputs, folder \in FolderInputs,
        custom \in CustomInputs, refresh \in BOOLEAN }

\* ------------------------------------------------------- remote export service
QueryIds == { "q1", "q2" }
FaultTexts == { "f1" }
Payloads == { "P1", "P2" }
MimeTypes == { "text/csv", "application/pdf", "application/x-unmapped" }
Statuses == { "InProgress", "Error", "Done", "Weird" }

\* What initiateAnalysisExport may answer.
InitiateResponses ==
    { [kind |-> "ok", queryID |-> q, text |-> ""] : q \in QueryIds }
    \cup { [kind |-> "fault", queryID |-> "", text |-> f] : f \in FaultTexts }
    \cup { [kind |-> "exception", queryID |-> "", text |-> ""] }

\* What completeAnalysisExport may answer: only a Done response carries data.
StatusResponses ==
    { [kind |-> "ok", exportStatus |-> s, viewData |-> "", mimeType |-> "", text |-> ""] :
        s \in Statuses \ {"Done"} }
    \cup { [kind |-> "ok", exportStatus |-> "Done", viewData |-> p, mimeType |-> m, text |-> ""] :
             p \in Payloads, m \in MimeTypes }
    \cup { [kind |-> "fault", exportStatus |-> "", viewData |-> "", mimeType |-> "", text |-> f] :
             f \in FaultTexts }
    \cup { [kind |-> "exception", exportStatus |-> "", viewData |-> "", mimeType |-> "", text |-> ""] }

NoResponse == [kind |-> "none", exportStatus |-> "", viewData |-> "", mimeType |-> "", text |-> ""]

\* ------------------------------------------------------------- exceptions
NoExc == [type |-> "none", msg |-> <<>>]
Exc(type, msg) == [type |-> type, msg |-> msg]

\* ------------------------------------------------------------- filesystem
\* A file system is a set of directories and a set of files [path, data],
\* at most one file per path.  A path is [folder, file].
PathOf(folder) == IF folder = <<>> THEN <<".">> ELSE folder

FileExists(files, p) == \E f \in files : f.path = p

FileData(files, p) == (CHOOSE f \in files : f.path = p).data

\* open(path, "wb") and write(data): the file holds exactly data afterwards.
WriteFile(files, p, data) == { f \in files : f.path # p } \cup { [path |-> p, data |-> data] }

\* mimetypes.guess_extension(mime_type, strict=True): None when unmapped.
GetExtension(mime_type) ==
    CASE mime_type = "text/csv" -> <<".", "c", "s", "v">>
      [] mime_type = "application/pdf" -> <<".", "p", "d", "f">>
      [] OTHER -> None

\* str(x) inside an f-string: None prints as the four letters None.
Str(x) == IF x = None THEN <<"N", "o", "n", "e">> ELSE x

\* _get_output_file_path: Path(output_folder) / f"{report_name}{extension}"
OutputFilePath(export_result, r) ==
    [ folder |-> PathOf(r.output_folder),
      file   |-> ReportName(r) \o Str(GetExtension(export_result.mimeType)) ]

\* ------------------------------------------------------ exporter, pure parts
\* A variant of OutputFolderMissing that never finds the folder missing.
OutputFolderNeverMissing(r) == FALSE

\* export_and_save, line 70: the fail-fast check.
OutputFolderMissing(r) == r.output_folder = None

\* A variant of TimeoutExceeded that never aborts.
TimeoutNever(elapsed_time, timeout) == FALSE

\* A variant of TimeoutExceeded that also aborts at the deadline itself.
TimeoutReached(elapsed_time, timeout) == elapsed_time >= timeout

\* _wait_for_export_completion, line 171.
TimeoutExceeded(elapsed_time, timeout) == elapsed_time > timeout

\* A variant of StatusBranch that polls again after an Error status.
StatusBranchRetryOnError(export_status) ==
    CASE export_status \in {"InProgress", "Error"} -> "continue"
      [] export_status = "Done" -> "break"
      [] OTHER -> "ValueError"

\* _wait_for_export_completion, lines 177-201: the match on export_status.
StatusBranch(export_status) ==
    CASE export_status = "InProgress" -> "continue"
      [] export_status = "Error" -> "ExportFailedError"
      [] export_status = "Done" -> "break"
      [] OTHER -> "ValueError"

\* The exception a branch of the match raises.
StatusError(export_status) ==
    IF StatusBranch(export_status) = "ExportFailedError"
    THEN Exc("ExportFailedError",
             <<"Export failed with an error. OBIEE returned exportStatus 'Error'.">>)
    ELSE Exc("ValueError", <<"OBIEE returned an unknown exportStatus: ", export_status>>)

\* A variant of ExportReportCatch with the catch-all clause alone.
ExportReportCatchAll(e) == Exc("ExportFailedError", <<"Export failed.">>)

\* _export_report, lines 110-119: what the two except clauses re-raise for an
\* exception e raised inside the try block.
ExportReportCatch(e) ==
    IF e.type = "Fault"
    THEN Exc("ExportFailedError", <<"Export failed. ">> \o e.msg)
    ELSE Exc("ExportFailedError", <<"Export failed.">>)

\* A variant of WriteBlocked that always lets the write through.
WriteNeverBlocked(exists, overwrite_existing) == FALSE

\* _write_data_to_file, line 215.
WriteBlocked(exists, overwrite_existing) == exists /\ ~overwrite_existing

\* A variant of AfterExport that saves whatever method was called.
AfterExportAlwaysSave(method) == "save"

\* What follows _export_report's return: _save_export in export_and_save
\* (line 74), the in-memory wrapping in export_to_file_like_object (line 94).
AfterExport(method) == IF method = "save" THEN "save" ELSE "wrap"

\* A variant of BytesIO that yields an empty stream.
BytesIOEmpty(viewData) == ""

\* io.BytesIO(viewData): the stream's contents.
BytesIO(viewData) == viewData

\* ------------------------------------------------------------------- state
VARIABLES
    exporter,       \* [timeout, overwrite_existing, status_check_interval]
    op,             \* the public operation running: "none", "save", "mem"
    report,         \* the descriptor passed to it
    pc,             \* "idle", "initiate", "poll", "save", "wrap", "returned", "raised"
    query_id,       \* queryID of the initiated export
    start_time,     \* _wait_for_export_completion's start_time
    now,            \* the wall clock, in seconds since the call began
    export_result,  \* the last status response
    loopExc,        \* the exception _wait_for_export_completion raised
    raised,         \* the exception that reached the caller
    result,         \* the value returned to the caller
    files,          \* the file system's files
    dirs,           \* the file system's directories
    nInitiate,      \* initiateAnalysisExport calls of this export call
    nStatus,        \* completeAnalysisExport calls of this export call
    nSleep,         \* time.sleep calls of this export call
    statusLog,      \* what the service answered to this call's status queries
    lastElapsed,    \* seconds from start_time to the last answer
    lastAnswer,     \* the service's last answer to a status query
    initiateLog,    \* this call's initiateAnalysisExport requests, with their answers
    statusQueryIds, \* the queryIDs this call's status queries carried
    files0,         \* files when this export call started
    dirs0           \* directories when this export call started

exportVars ==
    << exporter, op, report, pc, query_id, start_time, now, export_result, loopExc,
       raised, result, files, dirs, nInitiate, nStatus, nSleep, statusLog,
       lastElapsed, lastAnswer, initiateLog, statusQueryIds, files0, dirs0 >>

NoResult == [kind |-> "none"]
NoReport == Report(<<>>, <<>>, None, None, FALSE)

\* File systems the exporter may start on: empty, or with an earlier export.
OldFile == [path |-> [folder |-> <<"d">>, file |-> <<"b", ".", "c", "s", "v">>], data |-> "old"]

InitialFileSystems ==
    { [files |-> {}, dirs |-> {<<".">>}],
      [files |-> {OldFile}, dirs |-> {<<".">>, <<"d">>}] }

\* OBIEEAnalysisExporter.__init__
InitExporter ==
    /\ exporter \in [ timeout : 0..MaxTimeout, overwrite_existing : BOOLEAN,
                      status_check_interval : 0..MaxInterval ]
    /\ op = "none"
    /\ report = NoReport
    /\ pc = "idle"
    /\ query_id = ""
    /\ start_time = 0
    /\ now = 0
    /\ export_result = NoResponse
    /\ loopExc = NoExc
    /\ raised = NoExc
    /\ result = NoResult
    /\ \E fsys \in InitialFileSystems : files = fsys.files /\ dirs = fsys.dirs
    /\ nInitiate = 0
    /\ nStatus = 0
    /\ nSleep = 0
    /\ statusLog = <<>>
    /\ lastElapsed = 0
    /\ lastAnswer = NoResponse
    /\ initiateLog = <<>>
    /\ statusQueryIds = {}
    /\ files0 = files
    /\ dirs0 = dirs

\* A public method is entered with descriptor r.  Each export call owns its
\* state, so one call is followed from the file system it starts on.
BeginCall(which, r) ==
    /\ pc = "idle"
    /\ op' = which
    /\ report' = r
    /\ UNCHANGED << exporter, query_id, start_time, now, export_result, loopExc, result,
                    files, dirs, nInitiate, nStatus, nSleep, statusLog, lastElapsed,
                    lastAnswer, initiateLog, statusQueryIds, files0, dirs0 >>

\* export_and_save, lines 70-73: the folder check, then _export_report begins.
ExportAndSave ==
    \E r \in Reports :
        /\ BeginCall("save", r)
        /\ IF OutputFolderMissing(r)
           THEN /\ raised' = Exc("ValueError", <<"Output folder is required when exporting to file.">>)
                /\ pc' = "raised"
           ELSE /\ raised' = NoExc
                /\ pc' = "initiate"

\* export_to_file_like_object, line 93: _export_report begins.
ExportToFileLikeObject ==
    \E r \in Reports :
        /\ BeginCall("mem", r)
        /\ raised' = NoExc
        /\ pc' = "initiate"

\* _export_report, line 105: _initiate_export and its answer; on success
\* _wait_for_export_completion records start_time (line 151).
InitiateExport ==
    /\ pc = "initiate"
    /\ \E resp \in InitiateResponses :
        /\ nInitiate' = nInitiate + 1
        /\ initiateLog' = Append(initiateLog,
                                 [ report |-> report.report_ref,
                                   outputFormat |-> report.output_format,
                                   executionOptions |-> ExecutionOptions(report),
                                   answer |-> resp ])
        /\ CASE resp.kind = "ok" ->
                  /\ query_id' = resp.queryID
                  /\ start_time' = now
                  /\ pc' = "poll"
                  /\ raised' = raised
             [] resp.kind = "fault" ->
                  /\ raised' = ExportReportCatch(Exc("Fault", <<resp.text>>))
                  /\ pc' = "raised"
                  /\ UNCHANGED << query_id, start_time >>
             [] OTHER ->
                  /\ raised' = ExportReportCatch(Exc("Exception", <<>>))
                  /\ pc' = "raised"
                  /\ UNCHANGED << query_id, start_time >>
    /\ UNCHANGED << exporter, op, report, now, export_result, loopExc, result, files,
                    dirs, nStatus, nSleep, statusLog, lastElapsed, lastAnswer,
                    statusQueryIds, files0, dirs0 >>

\* One iteration of _wait_for_export_completion's loop (lines 152-201): the
\* status query, which takes d seconds, the elapsed time, the timeout check,
\* then the match on the status; the InProgress branch sleeps.  An exception
\* leaves through _export_report's except clauses (lines 110-119).
PollExportStatus ==
    /\ pc = "poll"
    /\ nStatus < MaxPolls
    /\ \E resp \in StatusResponses, d \in 0..MaxDelay :
        LET elapsed_time == (now + d) - start_time
            entry == IF resp.kind = "ok" THEN resp.exportStatus ELSE resp.kind
            branch == StatusBranch(resp.exportStatus)
        IN  /\ nStatus' = nStatus + 1
            /\ statusQueryIds' = statusQueryIds \cup {query_id}
            /\ statusLog' = Append(statusLog, entry)
            /\ lastElapsed' = elapsed_time
            /\ lastAnswer' = resp
            /\ CASE resp.kind = "fault" ->
                      /\ loopExc' = Exc("Fault", <<resp.text>>)
                      /\ raised' = ExportReportCatch(loopExc')
                      /\ pc' = "raised"
                      /\ now' = now + d
                      /\ UNCHANGED << export_result, nSleep >>
                 [] resp.kind = "exception" ->
                      /\ loopExc' = Exc("Exception", <<>>)
                      /\ raised' = ExportReportCatch(loopExc')
                      /\ pc' = "raised"
                      /\ now' = now + d
                      /\ UNCHANGED << export_result, nSleep >>
                 [] OTHER ->
                      /\ export_result' = resp
                      /\ IF TimeoutExceeded(elapsed_time, exporter.timeout)
                         THEN /\ loopExc' = Exc("TimeoutError", <<"Export timed out.">>)
                              /\ raised' = ExportReportCatch(loopExc')
                              /\ pc' = "raised"
                              /\ now' = now + d
                              /\ nSleep' = nSleep
                         ELSE CASE branch = "continue" ->
                                     /\ now' = now + d + exporter.status_check_interval
                                     /\ nSleep' = nSleep + 1
                                     /\ UNCHANGED << loopExc, raised, pc >>
                                [] branch = "break" ->
                                     /\ pc' = AfterExport(op)
                                     /\ now' = now + d
                                     /\ UNCHANGED << loopExc, raised, nSleep >>
                                [] OTHER ->
                                     /\ loopExc' = StatusError(resp.exportStatus)
                                     /\ raised' = ExportReportCatch(loopExc')
                                     /\ pc' = "raised"
                                     /\ now' = now + d
                                     /\ nSleep' = nSleep
    /\ UNCHANGED << exporter, op, report, query_id, start_time, result, files, dirs,
                    nInitiate, initiateLog, files0, dirs0 >>

\* _save_export (lines 121-128): _get_output_file_path makes the folder,
\* _write_data_to_file refuses an existing target or writes the payload.
SaveExport ==
    /\ pc = "save"
    /\ IF report.output_folder = None
       THEN /\ raised' = Exc("TypeError", <<"expected str, bytes or os.PathLike object">>)
            /\ pc' = "raised"
            /\ UNCHANGED << result, files, dirs >>
       ELSE LET output_file_path == OutputFilePath(export_result, report)
            IN  /\ dirs' = dirs \cup {output_file_path.folder}
                /\ IF WriteBlocked(FileExists(files, output_file_path),
                                   exporter.overwrite_existing)
                   THEN /\ raised' = Exc("FileExistsError",
                                         <<"File already exists and overwriting is disabled.">>)
                        /\ pc' = "raised"
                        /\ UNCHANGED << result, files >>
                   ELSE /\ files' = WriteFile(files, output_file_path, export_result.viewData)
                        /\ result' = [kind |-> "path", path |-> output_file_path]
                        /\ pc' = "returned"
                        /\ raised' = raised
    /\ UNCHANGED << exporter, op, report, query_id, start_time, now, export_result,
                    loopExc, nInitiate, nStatus, nSleep, statusLog, lastElapsed, lastAnswer,
                    initiateLog, statusQueryIds, files0, dirs0 >>

\* export_to_file_like_object, lines 94-96.
ReturnFileLikeObject ==
    /\ pc = "wrap"
    /\ result' = [ kind |-> "stream",
                   stream |-> BytesIO(export_result.viewData),
                   extension |-> GetExtension(export_result.mimeType) ]
    /\ pc' = "returned"
    /\ UNCHANGED << exporter, op, report, query_id, start_time, now, export_result,
                    loopExc, raised, files, dirs, nInitiate, nStatus, nSleep,
                    statusLog, lastElapsed, lastAnswer, initiateLog, statusQueryIds,
                    files0, dirs0 >>

\* ------------------------------------------------------------ OBIEESession
Passwords == { <<"p">>, <<"q">> }
Tokens == { <<"s">>, <<"t">> }

\* What SAWSessionService.logon may answer.
LogonResponses ==
    { [kind |-> "ok", token |-> t, text |-> ""] : t \in Tokens }
    \cup { [kind |-> "fault", token |-> None, text |-> f] : f \in FaultTexts }
    \cup { [kind |-> "exception", token |-> None, text |-> ""] }

\* What SAWSessionService.logoff may answer.
LogoffResponses ==
    { [kind |-> "ok", text |-> ""] }
    \cup { [kind |-> "fault", text |-> f] : f \in FaultTexts }
    \cup { [kind |-> "exception", text |-> ""] }

\* __enter__, lines 53-55: what a logon that raised e re-raises.  Only a
\* Fault is caught; any other exception propagates as it is.
EnterCatch(e) ==
    IF e.type = "Fault" THEN Exc("LogonFailedError", <<"Logon failed. ">> \o e.msg) ELSE e

\* __exit__, lines 68-70: what a logoff that raised e re-raises.  Only a
\* Fault is caught; any other exception propagates as it is.
ExitCatch(e) ==
    IF e.type = "Fault" THEN Exc("LogoffFailedError", <<"Logoff failed. ">> \o e.msg) ELSE e

\* A variant of SessionHeld that logs off whatever is stored.
SessionAlwaysHeld(session_id) == TRUE

\* __exit__, line 62: if self._session_id
SessionHeld(session_id) == Truthy(session_id)

\* A variant of SessionIdAfterLogoff that clears the token only on success.
SessionIdClearedOnSuccess(session_id, kind) == IF kind = "ok" THEN None ELSE session_id

\* __exit__, lines 71-72: the finally clause, whatever logoff answered.
SessionIdAfterLogoff(session_id, kind) == None

\* A variant of PasswordAfterLogon that keeps the password.
PasswordKept(password, kind) == password

\* A variant of PasswordAfterLogon that clears the password only on success.
PasswordClearedOnSuccess(password, kind) == IF kind = "ok" THEN None ELSE password

\* __enter__, lines 58-59: the finally clause, whatever logon answered.
PasswordAfterLogon(password, kind) == None

VARIABLES
    password,       \* OBIEESession._password
    session_id,     \* OBIEESession._session_id
    inScope,        \* the caller is inside the with block
    sessRaised,     \* the exception the last __enter__ or __exit__ raised
    lastCall,       \* "none", "enter", "exit"
    entries,        \* __enter__ calls so far
    exits,          \* __exit__ calls so far
    entryToken,     \* the token the latest entry's logon returned, else None
    logonLog,       \* the passwords submitted to logon, in order
    logoffLog,      \* the tokens submitted to logoff since the latest entry
    logoffAnswer    \* how the service answered the last __exit__'s logoff

sessionVars ==
    << password, session_id, inScope, sessRaised, lastCall, entries, exits,
       entryToken, logonLog, logoffLog, logoffAnswer >>

\* OBIEESession.__init__
InitSession ==
    /\ password \in Passwords
    /\ session_id = None
    /\ inScope = FALSE
    /\ sessRaised = NoExc
    /\ lastCall = "none"
    /\ entries = 0
    /\ exits = 0
    /\ entryToken = None
    /\ logonLog = <<>>
    /\ logoffLog = <<>>
    /\ logoffAnswer = "none"

\* __enter__ (lines 47-59).
EnterCall ==
    /\ entries < MaxEntries
    /\ \E resp \in LogonResponses :
        /\ logonLog' = Append(logonLog, password)
        /\ IF resp.kind = "ok"
           THEN /\ session_id' = resp.token
                /\ sessRaised' = NoExc
                /\ inScope' = TRUE
           ELSE /\ session_id' = session_id
                /\ sessRaised' = EnterCatch(IF resp.kind = "fault"
                                            THEN Exc("Fault", <<resp.text>>)
                                            ELSE Exc("Exception", <<>>))
                /\ inScope' = FALSE
        /\ entryToken' = resp.token
        /\ password' = PasswordAfterLogon(password, resp.kind)
    /\ entries' = entries + 1
    /\ lastCall' = "enter"
    /\ logoffLog' = <<>>
    /\ logoffAnswer' = "none"
    /\ UNCHANGED exits

\* __enter__ called by a with statement that is not nested in another with
\* block of the same object.
Enter == ~inScope /\ EnterCall

\* __exit__ (lines 61-72), called when the with block is left, or directly.
Exit ==
    /\ exits < MaxExits
    /\ IF SessionHeld(session_id)
       THEN \E resp \in LogoffResponses :
              /\ logoffLog' = Append(logoffLog, session_id)
              /\ logoffAnswer' = resp.kind
              /\ sessRaised' = CASE resp.kind = "ok" -> NoExc
                                 [] resp.kind = "fault" -> ExitCatch(Exc("Fault", <<resp.text>>))
                                 [] OTHER -> ExitCatch(Exc("Exception", <<>>))
              /\ session_id' = SessionIdAfterLogoff(session_id, resp.kind)
       ELSE /\ sessRaised' = NoExc
            /\ logoffAnswer' = "none"
            /\ UNCHANGED << logoffLog, session_id >>
    /\ exits' = exits + 1
    /\ inScope' = FALSE
    /\ lastCall' = "exit"
    /\ UNCHANGED << password, entries, entryToken, logonLog >>

\* ---------------------------------------------------- constructing a Report
\* Strings of at most n characters over the alphabet blank, letter, slash.
StringsUpTo(n) == UNION { [1..k -> {" ", "a", "/"}] : k \in 0..n }

\* The arguments callers pass to Report(...).
ReportArguments ==
    [ ref     : StringsUpTo(MaxLen),
      fmt     : { <<>>, <<" ">>, <<"C">>, <<" ", "C">> },
      folder  : { None, <<" ", "d">> },
      custom  : { None, <<>>, <<" ">>, <<"c">>, <<" ", "c">>, <<"c", " ">> },
      refresh : { FALSE } ]

VARIABLES
    args,           \* the arguments of Report(...)
    descriptor,     \* the Report that construction returned
    constructed,    \* __post_init__ has run
    warnings,       \* the attributes _strip_and_log warned about
    report_name,    \* what the report_name property returned, None before it is read
    original_name   \* what the original_name property returned, None before it is read

reportVars == << args, descriptor, constructed, warnings, report_name, original_name >>

InitReport ==
    /\ args \in ReportArguments
    /\ descriptor = NoReport
    /\ constructed = FALSE
    /\ warnings = {}
    /\ report_name = None
    /\ original_name = None

\* Report(...): the dataclass stores the arguments and __post_init__ (lines
\* 30-41) strips them, warning about each one that changes.
ConstructReport ==
    /\ ~constructed
    /\ descriptor' = Report(args.ref, args.fmt, args.folder, args.custom, args.refresh)
    /\ warnings' =
          { a \in {"report_ref"} : StripWarns(args.ref) }
          \cup { a \in {"output_format"} : StripWarns(args.fmt) }
          \cup { a \in {"output_folder"} : Truthy(args.folder) /\ StripWarns(args.folder) }
          \cup { a \in {"custom_report_name"} : Truthy(args.custom) /\ StripWarns(args.custom) }
    /\ constructed' = TRUE
    /\ UNCHANGED << args, report_name, original_name >>

\* The caller reads descriptor.report_name.
ReadReportName ==
    /\ constructed
    /\ report_name = None
    /\ report_name' = ReportName(descriptor)
    /\ UNCHANGED << args, descriptor, constructed, warnings, original_name >>

\* The caller reads descriptor.original_name.
ReadOriginalName ==
    /\ constructed
    /\ original_name = None
    /\ original_name' = OriginalName(descriptor)
    /\ UNCHANGED << args, descriptor, constructed, warnings, report_name >>

\* No Report is being constructed.
InitReportIdle ==
    /\ InitReport
    /\ args = [ref |-> <<>>, fmt |-> <<>>, folder |-> None, custom |-> None, refresh |-> FALSE]

\* ------------------------------------- two exporters saving to one target
\* Two independent exporters have each completed the export of the same
\* report with the same MIME type and now run _save_export on one file system.
Writers == { 1, 2 }

RaceReport == Report(<<"a", "/", "b">>, <<"C", "S", "V">>, <<"d">>, None, FALSE)

RaceResult(data) ==
    [kind |-> "ok", exportStatus |-> "Done", viewData |-> data, mimeType |-> "text/csv", text |-> ""]

VARIABLES
    wpc,            \* each writer's position: "mkdir", "check", "write",
                    \* "returned", "FileExistsError"
    woverwrite,     \* each writer's exporter.overwrite_existing
    wdata,          \* each writer's export_result.viewData
    wrote,          \* the writers that wrote the file
    replaced        \* the writers whose write replaced a file already there

raceVars == << wpc, woverwrite, wdata, wrote, replaced >>

InitRace ==
    /\ wpc = [w \in Writers |-> "mkdir"]
    /\ woverwrite \in [Writers -> BOOLEAN]
    /\ wdata \in [Writers -> Payloads]
    /\ wrote = {}
    /\ replaced = {}

\* No second exporter is at work.
InitRaceIdle ==
    /\ InitRace
    /\ woverwrite = [w \in Writers |-> FALSE]
    /\ wdata = [w \in Writers |-> "P1"]

\* _get_output_file_path (lines 205-211): the folder is made.
RaceMakeFolder(w) ==
    /\ wpc[w] = "mkdir"
    /\ dirs' = dirs \cup {OutputFilePath(RaceResult(wdata[w]), RaceReport).folder}
    /\ wpc' = [wpc EXCEPT ![w] = "check"]
    /\ UNCHANGED << files, woverwrite, wdata, wrote, replaced >>

\* _write_data_to_file, lines 215-221: the test of exists().
RaceCheckExists(w) ==
    /\ wpc[w] = "check"
    /\ wpc' = [wpc EXCEPT ![w] =
                 IF WriteBlocked(FileExists(files, OutputFilePath(RaceResult(wdata[w]), RaceReport)),
                                 woverwrite[w])
                 THEN "FileExistsError" ELSE "write"]
    /\ UNCHANGED << files, dirs, woverwrite, wdata, wrote, replaced >>

\* _write_data_to_file, lines 223-224: open(path, "wb") and write.
RaceWriteData(w) ==
    /\ wpc[w] = "write"
    /\ LET output_file_path == OutputFilePath(RaceResult(wdata[w]), RaceReport)
       IN  /\ files' = WriteFile(files, output_file_path, wdata[w])
           /\ replaced' = IF FileExists(files, output_file_path)
                          THEN replaced \cup {w} ELSE replaced
    /\ wrote' = wrote \cup {w}
    /\ wpc' = [wpc EXCEPT ![w] = "returned"]
    /\ UNCHANGED << dirs, woverwrite, wdata >>

\* Everything of the exporter but the file system.
exportVarsButFiles ==
    << exporter, op, report, pc, query_id, start_time, now, export_result, loopExc,
       raised, result, nInitiate, nStatus, nSleep, statusLog, lastElapsed, lastAnswer,
       initiateLog, statusQueryIds, files0, dirs0 >>

\* ------------------------------------------------------------ specifications
vars == << exportVars, sessionVars, reportVars, raceVars >>

\* The exporter alone: the session object stays as constructed.
Init ==
    /\ InitExporter
    /\ InitSession
    /\ password = <<"p">>
    /\ InitReportIdle
    /\ InitRaceIdle

Next ==
    \/ ExportAndSave /\ UNCHANGED << sessionVars, reportVars, raceVars >>
    \/ ExportToFileLikeObject /\ UNCHANGED << sessionVars, reportVars, raceVars >>
    \/ InitiateExport /\ UNCHANGED << sessionVars, reportVars, raceVars >>
    \/ PollExportStatus /\ UNCHANGED << sessionVars, reportVars, raceVars >>
    \/ SaveExport /\ UNCHANGED << sessionVars, reportVars, raceVars >>
    \/ ReturnFileLikeObject /\ UNCHANGED << sessionVars, reportVars, raceVars >>

Spec == Init /\ [][Next]_vars

\* The exporter with a service that answers every status query: the loop's
\* next iteration is always taken.
SpecLive ==
    Spec /\ WF_vars(PollExportStatus /\ UNCHANGED << sessionVars, reportVars, raceVars >>)

\* The session object alone: the exporter stays as constructed.
InitExporterIdle ==
    /\ InitExporter
    /\ exporter = [timeout |-> 0, overwrite_existing |-> FALSE, status_check_interval |-> 0]
    /\ files = {}

InitS ==
    /\ InitSession
    /\ InitExporterIdle
    /\ InitReportIdle
    /\ InitRaceIdle

NextS ==
    \/ Enter /\ UNCHANGED << exportVars, reportVars, raceVars >>
    \/ Exit /\ UNCHANGED << exportVars, reportVars, raceVars >>

SpecSession == InitS /\ [][NextS]_vars

\* The session object entered and left in any order: nested with blocks of
\* the same object and direct calls of __enter__ and __exit__ included.
NextReuse ==
    \/ EnterCall /\ UNCHANGED << exportVars, reportVars, raceVars >>
    \/ Exit /\ UNCHANGED << exportVars, reportVars, raceVars >>

SpecReuse == InitS /\ [][NextReuse]_vars

\* Report construction and its properties alone.
InitR ==
    /\ InitReport
    /\ InitExporterIdle
    /\ InitSession
    /\ password = <<"p">>
    /\ InitRaceIdle

NextR ==
    \/ ConstructReport /\ UNCHANGED << exportVars, sessionVars, raceVars >>
    \/ ReadReportName /\ UNCHANGED << exportVars, sessionVars, raceVars >>
    \/ ReadOriginalName /\ UNCHANGED << exportVars, sessionVars, raceVars >>

SpecReport == InitR /\ [][NextR]_vars

\* Two exporters in _save_export, their steps interleaved in any order.
InitW ==
    /\ InitRace
    /\ InitExporter
    /\ exporter = [timeout |-> 0, overwrite_existing |-> FALSE, status_check_interval |-> 0]
    /\ InitSession
    /\ password = <<"p">>
    /\ InitReportIdle

NextW ==
    \/ \E w \in Writers :
          RaceMakeFolder(w) /\ UNCHANGED << exportVarsButFiles, sessionVars, reportVars >>
    \/ \E w \in Writers :
          RaceCheckExists(w) /\ UNCHANGED << exportVarsButFiles, sessionVars, reportVars >>
    \/ \E w \in Writers :
          RaceWriteData(w) /\ UNCHANGED << exportVarsButFiles, sessionVars, reportVars >>

SpecRace == InitW /\ [][NextW]_vars

\* ------------------------------------------------------------------ claims
Last(log) == log[Len(log)]

\* The service answered at least one status query with a status value.
Answered == statusLog # <<>> /\ Last(statusLog) \in Statuses

\* Every answer before the last one was InProgress.
InProgressBefore == \A i \in 1..(Len(statusLog) - 1) : statusLog[i] = "InProgress"

WithinTimeout == lastElapsed <= exporter.timeout

\* Every answer was InProgress and the last one came after the deadline.
InProgressUntilTimeout ==
    /\ Answered
    /\ InProgressBefore
    /\ Last(statusLog) = "InProgress"
    /\ ~WithinTimeout

\* C1: when every status query answers InProgress until the elapsed time
\* exceeds the timeout, the call ends with TimeoutError raised to the caller
\* and no status query follows.
C1_TimeoutReachesCaller ==
    InProgressUntilTimeout => pc = "raised" /\ raised.type = "TimeoutError"

\* An answer within the timeout carried a status outside the vocabulary.
UnknownStatusAnswered ==
    /\ Answered
    /\ Last(statusLog) \notin {"InProgress", "Error", "Done"}
    /\ WithinTimeout

\* C2: when a status query answered within the timeout returns a status other
\* than InProgress, Error or Done, the call ends with ValueError raised to the
\* caller, and the message names the status.
C2_UnknownStatusReachesCaller ==
    UnknownStatusAnswered =>
        /\ pc = "raised"
        /\ raised.type = "ValueError"
        /\ \E i \in DOMAIN raised.msg : raised.msg[i] = Last(statusLog)

\* An answer within the timeout carried the status Error.
ErrorAnswered == Answered /\ Last(statusLog) = "Error" /\ WithinTimeout

\* C3: when a status query answered within the timeout returns Error, the call
\* ends with ExportFailedError raised to the caller, and from that answer on
\* the call performs no initiate-export call, status query or sleep.
C3_ErrorIsTerminal ==
    /\ [](ErrorAnswered =>
            /\ pc = "raised"
            /\ raised.type = "ExportFailedError"
            /\ nInitiate = 1
            /\ nSleep = Len(statusLog) - 1)
    /\ [][ErrorAnswered =>
            /\ nInitiate' = nInitiate
            /\ nStatus' = nStatus
            /\ nSleep' = nSleep]_vars

C3_Witness ==
    /\ ErrorAnswered
    /\ Len(statusLog) = 3
    /\ raised.type = "ExportFailedError"

\* k answers InProgress and then Done, all within the timeout.
DoneAfterInProgress ==
    /\ Answered
    /\ InProgressBefore
    /\ Last(statusLog) = "Done"
    /\ WithinTimeout

\* C4: when the status queries answer InProgress k times and then Done, all
\* within the timeout, export_to_file_like_object returns a stream holding the
\* Done answer's viewData with the extension mapped from its MIME type, after
\* exactly k+1 status queries.
C4_MemoryExportReturnsPayload ==
    (op = "mem" /\ DoneAfterInProgress) =>
        /\ pc \in {"wrap", "returned"}
        /\ raised = NoExc
        /\ nStatus = Len(statusLog)
        /\ nSleep = Len(statusLog) - 1
        /\ pc = "returned" =>
              /\ result.kind = "stream"
              /\ result.stream = lastAnswer.viewData
              /\ result.extension = GetExtension(lastAnswer.mimeType)

C4_Witness ==
    /\ op = "mem"
    /\ DoneAfterInProgress
    /\ Len(statusLog) = 3
    /\ pc = "returned"
    /\ result.stream = "P2"
    /\ result.extension = <<".", "p", "d", "f">>

\* C5: in the polling loop the timeout has priority over the status: an answer
\* whose elapsed time exceeds the timeout makes the loop raise TimeoutError
\* whatever its status, so no result is returned; an elapsed time equal to the
\* timeout does not abort.
C5_TimeoutHasPriority ==
    Answered =>
        /\ ~WithinTimeout =>
              /\ loopExc.type = "TimeoutError"
              /\ pc = "raised"
              /\ result = NoResult
        /\ lastElapsed = exporter.timeout => loopExc.type # "TimeoutError"

C5_Witness ==
    /\ Answered
    /\ Last(statusLog) = "Done"
    /\ ~WithinTimeout
    /\ loopExc.type = "TimeoutError"

\* C6: export_and_save on a descriptor without output_folder raises ValueError
\* before any remote call and without any file system change.
C6_MissingFolderFailsFast ==
    (op = "save" /\ report.output_folder = None) =>
        /\ pc = "raised"
        /\ raised.type = "ValueError"
        /\ nInitiate = 0
        /\ nStatus = 0
        /\ files = files0
        /\ dirs = dirs0

C6_Witness ==
    /\ op = "save"
    /\ report.output_folder = None
    /\ raised.type = "ValueError"
    /\ files # {}

\* export_and_save finished a remote export whose target path held a file
\* when the call began, with overwriting disabled.
WriteWasBlocked ==
    /\ op = "save"
    /\ report.output_folder # None
    /\ pc \in {"raised", "returned"}
    /\ nInitiate = 1
    /\ DoneAfterInProgress
    /\ ~exporter.overwrite_existing
    /\ FileExists(files0, OutputFilePath(lastAnswer, report))

\* C7: export_and_save with overwriting disabled against an existing target
\* raises FileExistsError only after the remote export completed, and leaves
\* the files as they were; the export ran to Done all the same.
C7_FileExistsAfterExport ==
    /\ WriteWasBlocked => raised.type = "FileExistsError" /\ files = files0
    /\ raised.type = "FileExistsError" => WriteWasBlocked

C7_Witness ==
    /\ WriteWasBlocked
    /\ raised.type = "FileExistsError"
    /\ Len(statusLog) = 2
    /\ FileData(files, OutputFilePath(lastAnswer, report)) = "old"

\* C8: on exit, logoff is submitted exactly when the entry's logon returned a
\* token, once, with that token; after a failed logon or without any entry
\* exit submits nothing; never more than one logoff per entry.
C8_LogoffIffTokenAcquired ==
    /\ Len(logoffLog) <= 1
    /\ lastCall = "exit" =>
          logoffLog = IF entryToken # None THEN <<entryToken>> ELSE <<>>

C8_Witness ==
    /\ lastCall = "exit"
    /\ entries = 2
    /\ entryToken = <<"t">>
    /\ logoffLog = << <<"t">> >>

\* C9: once exit has attempted logoff the stored token is absent, whether the
\* logoff returned or raised.
C9_TokenClearedAfterLogoff ==
    (lastCall = "exit" /\ logoffAnswer # "none") => session_id = None

C9_Witness ==
    /\ lastCall = "exit"
    /\ logoffAnswer = "fault"
    /\ sessRaised.type = "LogoffFailedError"
    /\ session_id = None

\* C10: any exception the remote logoff raises during exit, Fault or not,
\* reaches the caller as LogoffFailedError.
C10_LogoffFailureTranslated ==
    (lastCall = "exit" /\ logoffAnswer \in {"fault", "exception"}) =>
        sessRaised.type = "LogoffFailedError"

\* C11: once an entry has completed the stored password is absent, whether
\* logon returned a token, raised a Fault or raised any other exception.
C11_PasswordClearedAfterEntry ==
    entries >= 1 => password = None

C11_Witness ==
    /\ lastCall = "enter"
    /\ entries = 1
    /\ sessRaised.type = "Exception"
    /\ password = None

\* C12: every Report that construction returns has a non-empty report_ref and
\* a non-empty output_format, for all input strings.
C12_RefAndFormatNonEmpty ==
    constructed => descriptor.report_ref # <<>> /\ descriptor.output_format # <<>>

\* seg is the final segment of path: what follows the last slash once the
\* trailing slashes are dropped.
IsFinalSegment(seg, path) ==
    \E n \in 0..Len(path) :
        /\ \A j \in (n + 1)..Len(path) : path[j] = "/"
        /\ n > 0 => path[n] # "/"
        /\ \E i \in 1..(n + 1) :
              /\ seg = SubSeq(path, i, n)
              /\ \A j \in i..n : path[j] # "/"
              /\ i > 1 => path[i - 1] = "/"

CustomNameGiven == args.custom # None /\ \E i \in DOMAIN args.custom : args.custom[i] # " "

UnmappedDone ==
    /\ op \in {"save", "mem"}
    /\ op = "save" => report.output_folder # None
    /\ DoneAfterInProgress
    /\ GetExtension(lastAnswer.mimeType) = None

\* C13: when the completed export's MIME type is unmapped, export_and_save
\* and export_to_file_like_object fail: neither returns, and no file is
\* written.
C13_UnmappedMimeFails ==
    UnmappedDone => pc # "returned" /\ files = files0

\* The service answered the initiation or the last status query with a Fault.
FaultAnswered ==
    \/ initiateLog # <<>> /\ Last(initiateLog).answer.kind = "fault"
    \/ statusLog # <<>> /\ Last(statusLog) = "fault"

FaultText ==
    IF statusLog # <<>> THEN lastAnswer.text ELSE Last(initiateLog).answer.text

\* C14: a Fault from the initiation or from a status query ends the call with
\* ExportFailedError whose message carries the fault's text, and the call
\* makes no remote call afterwards.
C14_FaultWrapped ==
    /\ [](FaultAnswered =>
            /\ pc = "raised"
            /\ raised.type = "ExportFailedError"
            /\ \E i \in DOMAIN raised.msg : raised.msg[i] = FaultText)
    /\ [][FaultAnswered => nInitiate' = nInitiate /\ nStatus' = nStatus]_vars

C14_Witness ==
    /\ FaultAnswered
    /\ Len(statusLog) = 2
    /\ raised = Exc("ExportFailedError", <<"Export failed. ", "f1">>)

\* C16: export_to_file_like_object leaves the directories, the files and
\* their contents as they were, in every outcome and for every output_folder.
C16_MemoryExportLeavesFiles ==
    op = "mem" => files = files0 /\ dirs = dirs0

C16_Witness ==
    /\ op = "mem"
    /\ pc = "returned"
    /\ report.output_folder = <<"d">>
    /\ files = {}
    /\ dirs = {<<".">>}

\* The call was rejected by export_and_save's folder check.
RejectedBeforeExport == op = "save" /\ report.output_folder = None

\* C18: an export call issues initiate-export exactly once, with async true,
\* useMtom false and the descriptor's refresh flag, before any status query;
\* every status query carries the queryID that initiation returned; a failed
\* initiation is followed by no status query and no second initiation.  (A
\* call rejected by the folder check issues none.)
C18_InitiateOnceThenPoll ==
    /\ Len(initiateLog) <= 1
    /\ \A i \in DOMAIN initiateLog :
          /\ initiateLog[i].executionOptions =
                [async |-> TRUE, useMtom |-> FALSE, refresh |-> report.refresh]
          /\ initiateLog[i].report = report.report_ref
          /\ initiateLog[i].outputFormat = report.output_format
    /\ (pc \in {"poll", "save", "wrap", "returned"} \/ (pc = "raised" /\ ~RejectedBeforeExport)) =>
          Len(initiateLog) = 1
    /\ nStatus > 0 =>
          /\ Len(initiateLog) = 1
          /\ initiateLog[1].answer.kind = "ok"
          /\ statusQueryIds = {initiateLog[1].answer.queryID}
    /\ (initiateLog # <<>> /\ initiateLog[1].answer.kind # "ok") =>
          nStatus = 0 /\ statusQueryIds = {} /\ pc = "raised"

C18_Witness ==
    /\ pc = "returned"
    /\ report.refresh
    /\ nStatus = 3
    /\ initiateLog[1].answer.queryID = "q2"
    /\ initiateLog[1].executionOptions.refresh
    /\ statusQueryIds = {"q2"}

\* C17: with a positive status-check interval and a service that answers
\* every status query, the polling loop always ends (Done, Error, unknown
\* status, a raised exception or the timeout), even if every answer is
\* InProgress.
C17_PollingTerminates ==
    (pc = "poll" /\ exporter.status_check_interval > 0) ~> (pc # "poll")

C17_Witness ==
    /\ exporter.status_check_interval > 0
    /\ exporter.timeout = MaxTimeout
    /\ statusLog # <<>>
    /\ \A i \in DOMAIN statusLog : statusLog[i] = "InProgress"
    /\ lastElapsed = MaxTimeout + 1
    /\ loopExc.type = "TimeoutError"
    /\ pc = "raised"

\* C19: over any sequence of entries and exits of one session object, only
\* the first entry submits the constructor's password to logon, every later
\* entry submits None, and a later entry that fails leaves the stored token
\* as it was.
C19_PasswordSubmittedOnce ==
    /\ [](\A i \in DOMAIN logonLog :
            IF i = 1 THEN logonLog[i] \in Passwords ELSE logonLog[i] = None)
    /\ [][(entries >= 1 /\ entries' = entries + 1 /\ sessRaised' # NoExc) =>
            session_id' = session_id]_vars

C19_Witness ==
    /\ lastCall = "enter"
    /\ entries = 2
    /\ logonLog = << <<"q">>, None >>
    /\ sessRaised.type = "LogonFailedError"
    /\ session_id = <<"s">>

\* C20: with overwriting disabled in both exporters, in every interleaving of
\* their two export_and_save calls against one target path no write replaces
\* a file already there: at most one of them writes and the other ends with
\* FileExistsError.
C20_NoOverwriteInAnyInterleaving ==
    (\A w \in Writers : ~woverwrite[w]) =>
        /\ replaced = {}
        /\ Cardinality(wrote) <= 1
        /\ (\A w \in Writers : wpc[w] \in {"returned", "FileExistsError"}) =>
              \E w \in Writers : wpc[w] = "FileExistsError"

====
